---- MODULE Spec2Model ----
(***************************************************************************)
(* A model of the persona-simulation repository: the embedding cache       *)
(* (utils/query_cache_manager.py), the time-filtered retriever             *)
(* (static_rag/rag_modules.py), the bulk ingestion pipeline                *)
(* (static_rag/build_chroma_db.py), the zero-shot simulation loop          *)
(* (static_zero_shot/simulation_model_a.py), the evaluator's decision      *)
(* normalization (evaluate_correlation.py) and the optimized runner        *)
(* (time_aware_rag/run_optimized_simulation.py).                           *)
(*                                                                         *)
(* Each component has its own specification (SpecRetr, SpecCache, ...);    *)
(* the variables of the other components are held at an idle value.        *)
(***************************************************************************)
EXTENDS Integers, Sequences, FiniteSets, TLC

VARIABLES
    \* ---- vector store and retriever (rag_modules.py)
    store,        \* the collection: a set of stored documents
    r_call,       \* the last retrieve_reviews call: its inputs, or NoCall
    r_status,     \* "idle" | "ok" | "raised"
    r_filter,     \* the date_int of the where filter of the last call
    r_result,     \* the list returned by the last call
    \* ---- embedding cache, as one process sees it (query_cache_manager.py)
    cfile,        \* the cache file on disk (CACHE_FILE)
    manager,      \* the module global _manager: None, or the id of a manager object
    caches,       \* self.cache of every QueryCacheManager object, by object id
    extCalls,     \* per query: how often it was sent to the embedding provider
    provFails,    \* how many calls of the embedding provider have raised
    \* ---- threads calling get_query_embedding (the worker pool of asyncio.to_thread)
    thr,          \* per thread, its frame: pc (the statement it is at), q (query_text),
                  \* obj (the manager its method call runs on), ord and b (all_missing
                  \* and the batch of its precompute_all pass), ret (the caller of
                  \* _save_cache), snap (the dict contents its pickle.dump writes),
                  \* late (history: its get_embedding began after one on the same
                  \* object for the same query had returned)
    returnedOn,   \* history: <<object, query>> for which a get_embedding has returned a vector
    loadedPartial, \* history: a _load_cache has read the file while a save had it open
    ncalls,       \* how many get_query_embedding calls have been made
    \* ---- bulk ingestion (build_chroma_db.py)
    ing,          \* build_chroma_db's frame: phase, total_docs, i (rows read),
                  \* skipped_count, current_batch, batches, total_processed
    lastRow,      \* the row the loop has just handled, and what became of it
    badRows,      \* history: the rows whose timestamp could not be turned into a date
    pool,         \* the executor: queue (batches not yet taken by a worker),
                  \* stat (per batch), res (per batch: what process_batch returned),
                  \* runs (per batch: how often process_batch was started on it)
    pb,           \* one process_batch call, attempt by attempt
    \* ---- zero-shot simulation and evaluator
    sim,          \* run_experiment_a_compatible: phase, the loop index i, results,
                  \* errors (the error lines printed), csv (the file written),
                  \* last (history: the latest response and what became of it)
    ev,           \* calculate_model_ratio: status, the Vote column, the ratio
    \* ---- concurrent engine
    eng,          \* phase, the semaphore's free permits, each task's position
    \* ---- correlation evaluator
    evm,          \* one run of evaluate_correlation.main: its inputs, tables, results
    \* ---- one cache manager object, called sequentially
    mgr           \* position, the file, the dict, and the log of the latest call

retrVars  == <<store, r_call, r_status, r_filter, r_result>>
cacheVars == <<cfile, manager, caches, extCalls, provFails>>
thrVars   == <<thr, returnedOn, loadedPartial, ncalls>>

ingVars   == <<ing, lastRow, badRows, pool>>
pbVars    == <<pb>>
simVars   == <<sim, ev>>
engVars   == <<eng>>
evalVars  == <<evm>>
mgrVars   == <<mgr>>

\* What the actions of one component leave unchanged
notCache  == <<retrVars, ingVars, pbVars, simVars, engVars, evalVars,
               mgrVars>>
notRetr   == <<thrVars, ingVars, pbVars, simVars, engVars, evalVars,
               mgrVars>>
notIngest == <<r_call, r_status, r_filter, r_result, cacheVars, thrVars, pbVars,
               simVars, engVars, evalVars, mgrVars>>
notBatch  == <<retrVars, cacheVars, thrVars, ingVars, simVars, engVars, evalVars,
               mgrVars>>
notSim    == <<retrVars, cacheVars, thrVars, ingVars, pbVars, engVars, evalVars,
               mgrVars>>
notEval   == <<retrVars, cacheVars, thrVars, ingVars, pbVars, simVars, engVars,
               mgrVars>>
notMgr    == <<retrVars, cacheVars, thrVars, ingVars, pbVars, simVars, engVars,
               evalVars>>
notEng    == <<retrVars, cacheVars, thrVars, ingVars, pbVars, simVars, evalVars,
               mgrVars>>

-----------------------------------------------------------------------------
(* Generic helpers                                                         *)

Min(a, b) == IF a <= b THEN a ELSE b

Range(s) == {s[i] : i \in DOMAIN s}

\* Python's None: as an object reference, and as a value passed where a str
\* is expected (a one-element sequence no text equals)
None == 0

NoneArg == <<"<None>">>

-----------------------------------------------------------------------------
(* Strings are sequences of one-character strings.                         *)

Digits == <<"0", "1", "2", "3", "4", "5", "6", "7", "8", "9">>

IsDigit(c) == \E i \in 1..10 : Digits[i] = c

DigitVal(c) == (CHOOSE i \in 1..10 : Digits[i] = c) - 1

\* str.replace("-", ""): every "-" removed
RECURSIVE RemoveDashes(_)
RemoveDashes(s) ==
    IF s = <<>> THEN <<>>
    ELSE IF Head(s) = "-" THEN RemoveDashes(Tail(s))
         ELSE <<Head(s)>> \o RemoveDashes(Tail(s))

\* str.strip(): leading and trailing blanks removed
RECURSIVE LStrip(_)
LStrip(s) == IF s # <<>> /\ Head(s) = " " THEN LStrip(Tail(s)) ELSE s

RECURSIVE RStrip(_)
RStrip(s) ==
    IF s # <<>> /\ s[Len(s)] = " " THEN RStrip(SubSeq(s, 1, Len(s) - 1)) ELSE s

Strip(s) == RStrip(LStrip(s))

RECURSIVE DigitsValue(_)
DigitsValue(s) ==
    IF s = <<>> THEN 0
    ELSE 10 * DigitsValue(SubSeq(s, 1, Len(s) - 1)) + DigitVal(s[Len(s)])

\* int(s) of a str: blanks around the literal are ignored; the literal must be
\* a non-empty run of decimal digits ("-" never survives the replace, and the
\* inputs hold neither "+" nor "_"); anything else raises ValueError.
PyIntOk(s) == Strip(s) # <<>> /\ \A i \in DOMAIN Strip(s) : IsDigit(Strip(s)[i])

PyInt(s) == DigitsValue(Strip(s))

\* str(n) of a natural number
RECURSIVE PyStr(_)
PyStr(n) ==
    IF n < 10 THEN <<Digits[n + 1]>>
    ELSE PyStr(n \div 10) \o <<Digits[(n % 10) + 1]>>

-----------------------------------------------------------------------------
(* The embedding cache: utils/query_cache_manager.py                       *)

\* GENERAL_QUERY and the values of GAMER_TYPE_QUERIES (utils/search_queries.py):
\* the static queries precompute_all warms up.
GENERAL_QUERY == "general"

GAMER_TYPE_QUERIES == {"type_a"}

\* Query texts a caller may pass: the static ones and an ad-hoc one.
Queries == {GENERAL_QUERY} \cup GAMER_TYPE_QUERIES \cup {"adhoc"}

\* The embedding provider's vector for a query text (a point on a line).
Emb(q) ==
    CASE q = "general" -> 2
      [] q = "type_a"  -> 5
      [] OTHER         -> 11

\* A dict from query text to vector; {} is the empty function.
EmptyCache == [q \in {} |-> 0]

\* An assignment that is lost
CachePut_Lost(c, q, v) == c

\* self.cache[q] = v (line 62, line 91)
CachePut(c, q, v) == [k \in DOMAIN c \cup {q} |-> IF k = q THEN v ELSE c[k]]

\* Object ids of QueryCacheManager instances: the id of the thread that built it.
Threads == {1, 2}

\* The cache file: absent, a complete pickle of a dict, or bytes pickle.load
\* rejects (a corrupt or truncated file); writers are the threads holding it
\* open in mode 'wb'.
FileAbsent == [kind |-> "absent", map |-> EmptyCache, writers |-> {}]

FileCorrupt == [kind |-> "corrupt", map |-> EmptyCache, writers |-> {}]

FileOf(c) == [kind |-> "ok", map |-> c, writers |-> {}]

\* _load_cache: the dict of the file, {} when the file is absent, and {} too
\* when pickle.load raises (the except branch).
LoadCache(f) == IF f.kind = "ok" THEN f.map ELSE EmptyCache

\* precompute_all, line 68-73: the static queries not yet in the cache
Missing(c) == {q \in {GENERAL_QUERY} \cup GAMER_TYPE_QUERIES : q \notin DOMAIN c}

\* batch_size of precompute_all (20 in the source), scaled to the model's
\* two static queries so that a pass has more than one batch.
batch_size_q == 1

\* list(missing): the set in some iteration order
Orderings(S) ==
    {f \in [1..Cardinality(S) -> S] : \A i, j \in 1..Cardinality(S) : f[i] = f[j] => i = j}

NumBatches(n) == (n + batch_size_q - 1) \div batch_size_q

\* all_missing[i : i + batch_size] for the b-th batch (b from 1)
BatchOf(ord, b) ==
    {ord[i] : i \in ((b - 1) * batch_size_q + 1)..Min(b * batch_size_q, Len(ord))}

\* The cache after the first j batches of the pass were embedded and stored
RECURSIVE PutAll(_, _)
PutAll(c, S) ==
    IF S = {} THEN c
    ELSE LET q == CHOOSE x \in S : TRUE IN PutAll(CachePut(c, q, Emb(q)), S \ {q})

FirstBatches(ord, j) == UNION {BatchOf(ord, b) : b \in 1..j}

Bump(cnt, S) == [q \in DOMAIN cnt |-> IF q \in S THEN cnt[q] + 1 ELSE cnt[q]]

\* How many calls of the embedding provider may raise in one run of the model
MaxProviderFailures == 1

\* precompute_all run to its end by one thread on a manager whose dict is c: the
\* ways it can end. sent: the queries handed to the embedding provider (one call
\* per batch); saved: whether _save_cache was reached (line 93); raised: whether
\* a provider call raised (nothing in precompute_all catches it).
PrecomputeOutcomes(c) ==
    IF Missing(c) = {}
    THEN {[cache |-> c, sent |-> {}, saved |-> FALSE, raised |-> FALSE]}
    ELSE LET nb == NumBatches(Cardinality(Missing(c))) IN
         {[cache  |-> PutAll(c, FirstBatches(ord, j)),
           sent   |-> FirstBatches(ord, Min(j + 1, nb)),
           saved  |-> (j = nb),
           raised |-> (j < nb)] : ord \in Orderings(Missing(c)), j \in 0..nb}

\* get_embedding run to its end by one thread: a hit returns the cached vector;
\* a miss calls the provider, which returns Emb(q) or raises.
GetEmbeddingOutcomes(c, q) ==
    IF q \in DOMAIN c
    THEN {[cache |-> c, sent |-> {}, saved |-> FALSE, raised |-> FALSE, emb |-> c[q]]}
    ELSE {[cache |-> CachePut(c, q, Emb(q)), sent |-> {q}, saved |-> TRUE,
           raised |-> FALSE, emb |-> Emb(q)],
          [cache |-> c, sent |-> {q}, saved |-> FALSE, raised |-> TRUE, emb |-> 0]}

\* get_query_embedding(q) run to its end by thread t with no other thread
\* running: the values it leaves in _manager, the managers' dicts, the file and
\* the provider's call counts, and what it returns.
GetQueryEmbeddingOutcomes(t, q) ==
    LET fresh == (manager = None)
        id    == IF fresh THEN t ELSE manager
        c0    == IF fresh THEN LoadCache(cfile) ELSE caches[manager]
        pre   == IF fresh THEN PrecomputeOutcomes(c0)
                 ELSE {[cache |-> c0, sent |-> {}, saved |-> FALSE, raised |-> FALSE]}
        f1(p) == IF p.saved THEN FileOf(p.cache) ELSE cfile
        mayFail == provFails < MaxProviderFailures
    IN  {[manager  |-> id,
          caches   |-> [caches EXCEPT ![id] = p.cache],
          cfile    |-> f1(p),
          extCalls |-> Bump(extCalls, p.sent),
          raised   |-> TRUE,
          emb      |-> 0] : p \in {x \in pre : x.raised /\ mayFail}}
        \cup
        UNION {
          {[manager  |-> id,
            caches   |-> [caches EXCEPT ![id] = g.cache],
            cfile    |-> IF g.saved THEN FileOf(g.cache) ELSE f1(p),
            extCalls |-> Bump(Bump(extCalls, p.sent), g.sent),
            raised   |-> g.raised,
            emb      |-> g.emb] :
                g \in {x \in GetEmbeddingOutcomes(p.cache, q) : x.raised => mayFail}}
          : p \in {x \in pre : ~x.raised}}

\* ---- get_query_embedding, statement by statement, run by several threads

\* The queries the concurrent callers ask for
CallerQueries == {GENERAL_QUERY, "adhoc"}

\* A thread outside get_query_embedding: no frame, no locals
IdleThread ==
    [pc |-> "idle", q |-> "", obj |-> None, ord |-> <<>>, b |-> 0, ret |-> "",
     snap |-> EmptyCache, late |-> FALSE]

\* Thread t goes on as frame f; the other components stand still
Becomes(t, f) ==
    /\ thr' = [thr EXCEPT ![t] = f]
    /\ f.pc = "gq_check" \/ UNCHANGED ncalls
    /\ UNCHANGED notCache

\* How many calls of get_query_embedding the callers make in one run
MaxCalls == 3

\* A caller enters get_query_embedding(q)
Call(t, q) ==
    /\ thr[t].pc = "idle"
    /\ ncalls < MaxCalls
    /\ ncalls' = ncalls + 1
    /\ Becomes(t, [IdleThread EXCEPT !.pc = "gq_check", !.q = q])
    /\ UNCHANGED <<cacheVars, returnedOn, loadedPartial>>

\* Line 101: if _manager is None
CheckManager(t) ==
    /\ thr[t].pc = "gq_check"
    /\ Becomes(t, [thr[t] EXCEPT !.pc = IF manager = None THEN "gq_new" ELSE "gq_get"])
    /\ UNCHANGED <<cacheVars, returnedOn, loadedPartial>>

\* Line 102, right-hand side: QueryCacheManager(), whose __init__ runs _load_cache
Construct(t) ==
    /\ thr[t].pc = "gq_new"
    /\ caches' = [caches EXCEPT ![t] = LoadCache(cfile)]
    /\ loadedPartial' = (loadedPartial \/ cfile.writers # {})
    /\ Becomes(t, [thr[t] EXCEPT !.pc = "gq_assign"])
    /\ UNCHANGED <<cfile, manager, extCalls, provFails, returnedOn>>

\* Line 102, the store to the global
AssignManager(t) ==
    /\ thr[t].pc = "gq_assign"
    /\ manager' = t
    /\ Becomes(t, [thr[t] EXCEPT !.pc = "pc_start"])
    /\ UNCHANGED <<cfile, caches, extCalls, provFails, returnedOn, loadedPartial>>

\* Line 106 and 68-84: _manager is read again and precompute_all starts on it;
\* with nothing missing it returns at once (line 75-77)
PrecomputeStart(t) ==
    /\ thr[t].pc = "pc_start"
    /\ IF Missing(caches[manager]) = {}
       THEN Becomes(t, [thr[t] EXCEPT !.pc = "gq_get"])
       ELSE \E ord \in Orderings(Missing(caches[manager])) :
                Becomes(t, [thr[t] EXCEPT !.pc = "pc_embed", !.obj = manager,
                                          !.ord = ord, !.b = 1])
    /\ UNCHANGED <<cacheVars, returnedOn, loadedPartial>>

\* Line 89: self.embedding_fn(batch) returns
PrecomputeEmbed(t) ==
    /\ thr[t].pc = "pc_embed"
    /\ extCalls' = Bump(extCalls, BatchOf(thr[t].ord, thr[t].b))
    /\ Becomes(t, [thr[t] EXCEPT !.pc = "pc_store"])
    /\ UNCHANGED <<cfile, manager, caches, provFails, returnedOn, loadedPartial>>

\* Line 89: self.embedding_fn(batch) raises; nothing up to the caller catches it
PrecomputeEmbedRaises(t) ==
    /\ thr[t].pc = "pc_embed"
    /\ provFails < MaxProviderFailures
    /\ extCalls' = Bump(extCalls, BatchOf(thr[t].ord, thr[t].b))
    /\ provFails' = provFails + 1
    /\ Becomes(t, IdleThread)
    /\ UNCHANGED <<cfile, manager, caches, returnedOn, loadedPartial>>

\* Line 90-91, and line 86 or 93: the batch is stored; next batch, or save
PrecomputeStore(t) ==
    /\ thr[t].pc = "pc_store"
    /\ caches' = [caches EXCEPT ![thr[t].obj] = PutAll(@, BatchOf(thr[t].ord, thr[t].b))]
    /\ IF thr[t].b < NumBatches(Len(thr[t].ord))
       THEN Becomes(t, [thr[t] EXCEPT !.pc = "pc_embed", !.b = @ + 1])
       ELSE Becomes(t, [thr[t] EXCEPT !.pc = "sv_open", !.ret = "pc", !.ord = <<>>, !.b = 0])
    /\ UNCHANGED <<cfile, manager, extCalls, provFails, returnedOn, loadedPartial>>

\* Line 48: open(CACHE_FILE, 'wb') truncates the file
SaveOpen(t) ==
    /\ thr[t].pc = "sv_open"
    /\ cfile' = [kind |-> "corrupt", map |-> EmptyCache, writers |-> cfile.writers \cup {t}]
    /\ Becomes(t, [thr[t] EXCEPT !.pc = "sv_dump"])
    /\ UNCHANGED <<manager, caches, extCalls, provFails, returnedOn, loadedPartial>>

\* Line 49: pickle.dump(self.cache, f) starts walking the dict
SaveDump(t) ==
    /\ thr[t].pc = "sv_dump"
    /\ Becomes(t, [thr[t] EXCEPT !.pc = "sv_close", !.snap = caches[thr[t].obj]])
    /\ UNCHANGED <<cacheVars, returnedOn, loadedPartial>>

\* What the file holds when t leaves the with block: the pickle of the dict as
\* dumped; but when the dict grew during the dump (pickle raises RuntimeError,
\* which line 51 swallows) or another thread has the file open too, the bytes
\* may also be ones pickle.load rejects.
CloseResults(t) ==
    {[kind |-> "ok", map |-> thr[t].snap, writers |-> cfile.writers \ {t}]}
    \cup
    IF cfile.writers # {t} \/ caches[thr[t].obj] # thr[t].snap
    THEN {[kind |-> "corrupt", map |-> EmptyCache, writers |-> cfile.writers \ {t}]}
    ELSE {}

\* Line 48-52, the end of the with block; then back to the caller of
\* _save_cache: precompute_all returns to line 108, get_embedding returns the
\* vector (line 64)
SaveClose(t) ==
    /\ thr[t].pc = "sv_close"
    /\ cfile' \in CloseResults(t)
    /\ IF thr[t].ret = "pc"
       THEN /\ Becomes(t, [thr[t] EXCEPT !.pc = "gq_get", !.obj = None, !.ret = "",
                                         !.snap = EmptyCache])
            /\ UNCHANGED returnedOn
       ELSE /\ Becomes(t, IdleThread)
            /\ returnedOn' = returnedOn \cup {<<thr[t].obj, thr[t].q>>}
    /\ UNCHANGED <<manager, caches, extCalls, provFails, loadedPartial>>

\* Line 108: _manager is read and get_embedding is called on it
GetStart(t) ==
    /\ thr[t].pc = "gq_get"
    /\ Becomes(t, [thr[t] EXCEPT !.pc = "ge_check", !.obj = manager,
                                 !.late = (<<manager, thr[t].q>> \in returnedOn)])
    /\ UNCHANGED <<cacheVars, returnedOn, loadedPartial>>

\* Line 55-56: a hit returns the cached vector
GetCheck(t) ==
    /\ thr[t].pc = "ge_check"
    /\ IF thr[t].q \in DOMAIN caches[thr[t].obj]
       THEN /\ Becomes(t, IdleThread)
            /\ returnedOn' = returnedOn \cup {<<thr[t].obj, thr[t].q>>}
       ELSE /\ Becomes(t, [thr[t] EXCEPT !.pc = "ge_embed"])
            /\ UNCHANGED returnedOn
    /\ UNCHANGED <<cacheVars, loadedPartial>>

\* Line 61: self.embedding_fn([query_text]) returns
GetEmbed(t) ==
    /\ thr[t].pc = "ge_embed"
    /\ extCalls' = Bump(extCalls, {thr[t].q})
    /\ Becomes(t, [thr[t] EXCEPT !.pc = "ge_store"])
    /\ UNCHANGED <<cfile, manager, caches, provFails, returnedOn, loadedPartial>>

\* Line 61: self.embedding_fn([query_text]) raises
GetEmbedRaises(t) ==
    /\ thr[t].pc = "ge_embed"
    /\ provFails < MaxProviderFailures
    /\ extCalls' = Bump(extCalls, {thr[t].q})
    /\ provFails' = provFails + 1
    /\ Becomes(t, IdleThread)
    /\ UNCHANGED <<cfile, manager, caches, returnedOn, loadedPartial>>

\* Line 62-63: the vector is stored under the query text; _save_cache is called
GetStore(t) ==
    /\ thr[t].pc = "ge_store"
    /\ caches' = [caches EXCEPT ![thr[t].obj] = CachePut(@, thr[t].q, Emb(thr[t].q))]
    /\ Becomes(t, [thr[t] EXCEPT !.pc = "sv_open", !.ret = "ge"])
    /\ UNCHANGED <<cfile, manager, extCalls, provFails, returnedOn, loadedPartial>>

ThreadStep(t) ==
    \/ \E q \in CallerQueries : Call(t, q)
    \/ CheckManager(t)
    \/ Construct(t)
    \/ AssignManager(t)
    \/ PrecomputeStart(t)
    \/ PrecomputeEmbed(t)
    \/ PrecomputeEmbedRaises(t)
    \/ PrecomputeStore(t)
    \/ SaveOpen(t)
    \/ SaveDump(t)
    \/ SaveClose(t)
    \/ GetStart(t)
    \/ GetCheck(t)
    \/ GetEmbed(t)
    \/ GetEmbedRaises(t)
    \/ GetStore(t)

ThrInit ==
    /\ thr = [t \in Threads |-> IdleThread]
    /\ returnedOn = {}
    /\ loadedPartial = FALSE
    /\ ncalls = 0

-----------------------------------------------------------------------------
(* The vector store and the retriever: static_rag/rag_modules.py           *)

\* Documents that may be in the collection: an id, the "date" metadata
\* (YYYYMMDD), the embedding of the text (a point on the line of Emb) and the
\* length of the text. The latest document is the nearest to every query.
DocPool ==
    {[id |-> 1, date |-> 20200101, vec |-> 1, len |-> 3],
     [id |-> 2, date |-> 20200601, vec |-> 9, len |-> 400],
     [id |-> 3, date |-> 20210101, vec |-> 6, len |-> 401]}

Abs(x) == IF x < 0 THEN -x ELSE x

\* d1 is ranked before d2 for the query vector e: nearer first, ties by id
Nearer(e, d1, d2) ==
    \/ Abs(d1.vec - e) < Abs(d2.vec - e)
    \/ Abs(d1.vec - e) = Abs(d2.vec - e) /\ d1.id < d2.id

\* The documents of S best first
RECURSIVE Ranked(_, _)
Ranked(e, S) ==
    IF S = {} THEN <<>>
    ELSE LET best == CHOOSE d \in S : \A o \in S \ {d} : Nearer(e, d, o)
         IN  <<best>> \o Ranked(e, S \ {best})

\* A filter that compares the wrong way round
WhereFilter_Gte(date_int, d) == d.date >= date_int

\* The where filter {"date": {"$lte": date_int}} (line 92)
WhereFilter(date_int, d) == d.date <= date_int

\* A query that ignores n_results
CollectionQuery_NoLimit(S, e, k, date_int) ==
    Ranked(e, {d \in S : d.date <= date_int})

\* collection.query(query_embeddings=[e], n_results=k, where=...): the k nearest
\* of the documents that pass the filter, best first (line 99-103)
CollectionQuery(S, e, k, date_int) ==
    LET hits == Ranked(e, {d \in S : WhereFilter(date_int, d)})
    IN  SubSeq(hits, 1, Min(k, Len(hits)))

\* The character budget of a snippet, doc[:400] (line 121)
SNIPPET_CHARS == 400

\* The fallback date_int of a malformed current_date (line 89)
FALLBACK_DATE == 20250101

\* Line 116-118: str(date_int), with dashes when it has 8 characters
DateStr(date_int) ==
    LET t == PyStr(date_int)
    IN  IF Len(t) = 8
        THEN SubSeq(t, 1, 4) \o <<"-">> \o SubSeq(t, 5, 6) \o <<"-">> \o SubSeq(t, 7, 8)
        ELSE t

\* Line 113-122: one "- [date] text..." line per hit, in the order of the hits.
\* doc is the id of the document the text was taken from.
FormatHits(hits) ==
    [i \in 1..Len(hits) |->
        [doc      |-> hits[i].id,
         date_str |-> DateStr(hits[i].date),
         chars    |-> Min(hits[i].len, SNIPPET_CHARS)]]

\* Line 85-89: the date_int of current_date (a str)
DateInt(current_date) ==
    IF PyIntOk(RemoveDashes(current_date))
    THEN PyInt(RemoveDashes(current_date))
    ELSE FALLBACK_DATE

\* The largest top_k a caller passes
MaxTopK == 5

\* Values callers pass as current_date: dates in YYYY-MM-DD form, a
\* blank-padded date, a text in another form, a text of digits that names no
\* day, the empty text and None
DateInputs ==
    {<<"2","0","2","0","-","1","2","-","3","1">>,
     <<"2","0","2","0","-","1","3","-","4","5">>,
     <<"2","0","2","0","-","0","6","-","0","1">>,
     <<"2","0","1","9","-","1","2","-","3","1">>,
     <<" ","2","0","2","0","-","0","1","-","0","1">>,
     <<"2","0","2","0","/","1","2","/","3","1">>,
     <<>>,
     NoneArg}

NoCall == [query_text |-> "", current_date |-> NoneArg, top_k |-> 0]

\* retrieve_reviews(query_text, current_date, top_k), the whole call.
\* None.replace raises AttributeError, which the except ValueError does not
\* catch; an exception of the embedding provider is not caught either.
RetrieveReviews(q, cd, k) ==
    /\ r_call' = [query_text |-> q, current_date |-> cd, top_k |-> k]
    /\ UNCHANGED <<store, notRetr>>
    /\ IF cd = NoneArg
       THEN /\ r_status' = "raised"
            /\ r_filter' = 0
            /\ r_result' = <<>>
            /\ UNCHANGED cacheVars
       ELSE \E o \in GetQueryEmbeddingOutcomes(1, q) :
            /\ manager' = o.manager
            /\ caches' = o.caches
            /\ cfile' = o.cfile
            /\ extCalls' = o.extCalls
            /\ provFails' = IF o.raised THEN provFails + 1 ELSE provFails
            /\ r_filter' = DateInt(cd)
            /\ IF o.raised
               THEN /\ r_status' = "raised"
                    /\ r_result' = <<>>
               ELSE /\ r_status' = "ok"
                    /\ r_result' = FormatHits(CollectionQuery(store, o.emb, k, DateInt(cd)))

TopKs == {1, 2, MaxTopK}

Retrieve == \E q \in Queries, cd \in DateInputs, k \in TopKs : RetrieveReviews(q, cd, k)

\* Cache files a run may find at start-up
InitialFiles ==
    {FileAbsent, FileCorrupt,
     FileOf(CachePut(EmptyCache, "general", Emb("general"))),
     FileOf(PutAll(EmptyCache, {"general", "type_a"}))}

CacheInit ==
    /\ cfile \in InitialFiles
    /\ manager = None
    /\ caches = [t \in Threads |-> EmptyCache]
    /\ extCalls = [q \in Queries |-> 0]
    /\ provFails = 0

CacheIdle ==
    /\ cfile = FileAbsent
    /\ manager = None
    /\ caches = [t \in Threads |-> EmptyCache]
    /\ extCalls = [q \in Queries |-> 0]
    /\ provFails = 0

RetrInit ==
    /\ store \in SUBSET DocPool
    /\ r_call = NoCall
    /\ r_status = "idle"
    /\ r_filter = 0
    /\ r_result = <<>>

RetrIdle ==
    /\ store = {}
    /\ r_call = NoCall
    /\ r_status = "idle"
    /\ r_filter = 0
    /\ r_result = <<>>

-----------------------------------------------------------------------------
(* Bulk ingestion: static_rag/build_chroma_db.py                           *)

\* max_retries and base_delay of process_batch (line 67-68); delays are in
\* seconds
max_retries == 5

base_delay == 2

\* random.uniform(0, 1): the two ends of the range
Jitters == {0, 1}

RECURSIVE Pow2(_)
Pow2(n) == IF n = 0 THEN 1 ELSE 2 * Pow2(n - 1)

\* str.lower() on the letters the messages use
Lower(c) ==
    CASE c = "R" -> "r" [] c = "L" -> "l" [] c = "H" -> "h" [] c = "T" -> "t"
      [] c = "P" -> "p" [] OTHER -> c

LowerStr(s) == [k \in DOMAIN s |-> Lower(s[k])]

\* sub in s
Contains(s, sub) ==
    \E k \in 0..(Len(s) - Len(sub)) : SubSeq(s, k + 1, k + Len(sub)) = sub

\* str(e) of the exceptions collection.add may raise
MsgRateLimit == <<"R","a","t","e"," ","L","i","m","i","t">>

Msg429 == <<"H","T","T","P"," ","4","2","9">>

MsgTimeout == <<"t","i","m","e","d"," ","o","u","t">>

\* What one collection.add call does: <<>> when it returns, else the message
\* of the exception
AddOutcomes == {<<>>, MsgRateLimit, Msg429, MsgTimeout}

\* A test that takes every failure for a rate limit
IsRateLimit_Any(error_msg) == TRUE

\* Line 79-80: "rate limit" in error_msg or "429" in error_msg
IsRateLimit(error_msg) ==
    \/ Contains(error_msg, <<"r","a","t","e"," ","l","i","m","i","t">>)
    \/ Contains(error_msg, <<"4","2","9">>)

\* Line 70-88, one turn of the loop: what the attempt-th call of
\* collection.add (from 0) leads to
AttemptResult(attempt, outcome) ==
    IF outcome = <<>> THEN "return_len"
    ELSE IF IsRateLimit(LowerStr(outcome)) /\ attempt < max_retries THEN "retry"
    ELSE "return_0"

\* Line 82: the delay before the retry that follows attempt
Delay(attempt, jitter) == base_delay * Pow2(attempt) + jitter

\* process_batch(collection, batch, idx) run to its end, given what each call
\* of collection.add does: the value it returns
RECURSIVE ProcessBatchFrom(_, _, _)
ProcessBatchFrom(attempt, n, outs) ==
    LET r == AttemptResult(attempt, outs[attempt + 1])
    IN  IF r = "return_len" THEN n
        ELSE IF r = "retry" THEN ProcessBatchFrom(attempt + 1, n, outs)
        ELSE 0

ProcessBatch(n, outs) == ProcessBatchFrom(0, n, outs)

\* ---- process_batch, attempt by attempt

PbIdle == [status |-> "idle", n |-> 0, attempt |-> 0, msgs |-> <<>>, sleeps |-> <<>>,
           result |-> 0]

\* Sizes of the batches process_batch is called with
BatchSizes == {1, 2}

\* Line 61-68: the call
PbCall(n) ==
    /\ pb.status \in {"idle", "returned"}
    /\ pb' = [PbIdle EXCEPT !.status = "running", !.n = n]
    /\ UNCHANGED notBatch

\* Line 70-88: one turn of the loop
PbAttempt(outcome, jitter) ==
    /\ pb.status = "running"
    /\ LET r == AttemptResult(pb.attempt, outcome)
           seen == IF outcome = <<>> THEN pb.msgs ELSE Append(pb.msgs, outcome)
       IN  pb' = CASE r = "return_len" ->
                        [pb EXCEPT !.status = "returned", !.result = pb.n, !.msgs = seen]
                   [] r = "retry" ->
                        [pb EXCEPT !.attempt = @ + 1, !.msgs = seen,
                                   !.sleeps = Append(@, Delay(pb.attempt, jitter))]
                   [] OTHER ->
                        [pb EXCEPT !.status = "returned", !.result = 0, !.msgs = seen]
    /\ UNCHANGED notBatch

NextBatch ==
    \/ \E n \in BatchSizes : PbCall(n)
    \/ \E o \in AddOutcomes, j \in Jitters : PbAttempt(o, j)

\* ---- build_chroma_db

\* Line 148-149: datetime.fromtimestamp(int(ts)).strftime('%Y%m%d') as a number,
\* for a finite ts >= 0 and the clock in UTC (days since 1970-01-01 to the
\* civil date)
DateOfTimestamp(ts) ==
    LET z   == (ts \div 86400) + 719468
        era == z \div 146097
        doe == z - era * 146097
        yoe == (doe - doe \div 1460 + doe \div 36524 - doe \div 146096) \div 365
        doy == doe - (365 * yoe + yoe \div 4 - yoe \div 100)
        mp  == (5 * doy + 2) \div 153
        d   == doy - (153 * mp + 2) \div 5 + 1
        m   == IF mp < 10 THEN mp + 3 ELSE mp - 9
        y   == yoe + era * 400 + (IF m <= 2 THEN 1 ELSE 0)
    IN  y * 10000 + m * 100 + d

\* Values of a timestamp cell: NaN (the cell is empty), a number of seconds, a
\* text int() rejects, and a number int() or fromtimestamp cannot take
\* (float('inf'), 1e20)
TsNaN == [kind |-> "nan", v |-> 0]

TsNum(v) == [kind |-> "num", v |-> v]

TsText == [kind |-> "text", v |-> 0]

TsHuge == [kind |-> "huge", v |-> 0]

\* Timestamps of 2020-06-01 13:00:00 and 2020-01-01 00:00:00 UTC
TsUpdated == TsNum(1591016400)

TsCreated == TsNum(1577836800)

\* The rows of the CSV: <<timestamp_updated, timestamp_created>>
RowKinds ==
    {<<TsUpdated, TsCreated>>, <<TsNaN, TsCreated>>, <<TsUpdated, TsNaN>>,
     <<TsNaN, TsNaN>>, <<TsText, TsCreated>>, <<TsNaN, TsText>>,
     <<TsHuge, TsCreated>>, <<TsNaN, TsHuge>>}

\* A policy that reads the created timestamp first
ResolveTs_CreatedFirst(row) == IF row[2].kind = "nan" THEN row[1] ELSE row[2]

\* Line 142-144: ts = timestamp_updated, or timestamp_created when that is NaN
ResolveTs(row) == IF row[1].kind = "nan" THEN row[2] ELSE row[1]

\* Line 146-154: what the try block does with ts. int(NaN) and int(text) raise
\* ValueError, which is caught; int(inf) and fromtimestamp(1e20) raise
\* OverflowError, which is not.
ParseTs(ts) ==
    CASE ts.kind = "num"  -> [how |-> "date", date |-> DateOfTimestamp(ts.v)]
      [] ts.kind = "huge" -> [how |-> "raise", date |-> 0]
      [] OTHER            -> [how |-> "skip", date |-> 0]

\* batch_size of build_chroma_db (512 in the source), scaled to the model's rows
batch_size == 1

\* The pool size (line 201)
max_workers == 3

\* The largest number of rows of the CSV
MaxRows == 4

\* The document made of row i (line 156-180); the embedding and the length of
\* the text go by the row
DocOf(i, date_int) == [id |-> i, date |-> date_int, vec |-> 3 * i, len |-> 100 * i]

NoRow == [i |-> 0, row |-> <<TsNaN, TsNaN>>, how |-> "none", date |-> 0]

IngInit ==
    /\ ing \in {[phase |-> "prepare", total_docs |-> n, i |-> 0, skipped_count |-> 0,
                 current_batch |-> <<>>, batches |-> <<>>, total_processed |-> 0]
                    : n \in 0..MaxRows}
    /\ lastRow = NoRow
    /\ badRows = {}
    /\ pool = [queue |-> <<>>, stat |-> <<>>, res |-> <<>>, runs |-> <<>>]

IngIdle ==
    /\ ing = [phase |-> "off", total_docs |-> 0, i |-> 0, skipped_count |-> 0,
              current_batch |-> <<>>, batches |-> <<>>, total_processed |-> 0]
    /\ lastRow = NoRow
    /\ badRows = {}
    /\ pool = [queue |-> <<>>, stat |-> <<>>, res |-> <<>>, runs |-> <<>>]

\* Line 137-188: one turn of the loop over the rows
PrepareRow(row) ==
    /\ ing.phase = "prepare"
    /\ ing.i < ing.total_docs
    /\ LET i  == ing.i + 1
           p  == ParseTs(ResolveTs(row))
           cb == Append(ing.current_batch, DocOf(i, p.date))
       IN  /\ lastRow' = [i |-> i, row |-> row, how |-> p.how, date |-> p.date]
           /\ badRows' = IF p.how = "date" THEN badRows ELSE badRows \cup {i}
           /\ ing' = CASE p.how = "raise" -> [ing EXCEPT !.phase = "aborted", !.i = i]
                       [] p.how = "skip" ->
                            [ing EXCEPT !.i = i, !.skipped_count = @ + 1]
                       [] OTHER ->
                            IF Len(cb) >= batch_size
                            THEN [ing EXCEPT !.i = i, !.current_batch = <<>>,
                                             !.batches = Append(@, cb)]
                            ELSE [ing EXCEPT !.i = i, !.current_batch = cb]
    /\ UNCHANGED <<store, pool, notIngest>>

\* Line 190-207: the last, partial batch is kept and every batch is submitted
\* to the executor
SubmitAll ==
    /\ ing.phase = "prepare"
    /\ ing.i = ing.total_docs
    /\ LET bs == IF ing.current_batch # <<>>
                 THEN Append(ing.batches, ing.current_batch)
                 ELSE ing.batches
       IN  /\ ing' = [ing EXCEPT !.phase = "pool", !.batches = bs]
           /\ pool' = [queue |-> [k \in 1..Len(bs) |-> k],
                       stat  |-> [k \in 1..Len(bs) |-> "queued"],
                       res   |-> [k \in 1..Len(bs) |-> 0],
                       runs  |-> [k \in 1..Len(bs) |-> 0]]
    /\ lastRow' = NoRow
    /\ UNCHANGED <<store, badRows, notIngest>>

Running == {k \in DOMAIN pool.stat : pool.stat[k] = "running"}

\* A pool that starts a thread for every batch
WorkerFree_Unbounded == TRUE

\* ThreadPoolExecutor(max_workers=max_workers): a worker thread is free
WorkerFree == Cardinality(Running) < max_workers

\* A worker thread takes the next work item and calls process_batch on it
WorkerStart ==
    /\ ing.phase = "pool"
    /\ pool.queue # <<>>
    /\ WorkerFree
    /\ LET k == Head(pool.queue)
       IN  pool' = [pool EXCEPT !.queue = Tail(@), !.stat[k] = "running",
                                !.runs[k] = @ + 1]
    /\ UNCHANGED <<store, ing, lastRow, badRows, notIngest>>

\* What collection.add does on the six attempts of one process_batch call
PoolOutcomes ==
    {[a \in 1..(max_retries + 1) |-> <<>>],
     [a \in 1..(max_retries + 1) |-> IF a < 3 THEN Msg429 ELSE <<>>],
     [a \in 1..(max_retries + 1) |-> MsgRateLimit],
     [a \in 1..(max_retries + 1) |-> MsgTimeout]}

\* process_batch on batch k returns; a successful collection.add has put the
\* documents of the batch into the collection
WorkerFinish(k, outs) ==
    /\ ing.phase = "pool"
    /\ k \in DOMAIN pool.stat
    /\ pool.stat[k] = "running"
    /\ LET n == ProcessBatch(Len(ing.batches[k]), outs)
       IN  /\ pool' = [pool EXCEPT !.stat[k] = "done", !.res[k] = n]
           /\ store' = IF n > 0 THEN store \cup Range(ing.batches[k]) ELSE store
    /\ UNCHANGED <<ing, lastRow, badRows, notIngest>>

\* Line 209-211: as_completed yields a finished future; its result is added
Collect(k) ==
    /\ ing.phase = "pool"
    /\ k \in DOMAIN pool.stat
    /\ pool.stat[k] = "done"
    /\ pool' = [pool EXCEPT !.stat[k] = "collected"]
    /\ ing' = [ing EXCEPT !.total_processed = @ + pool.res[k]]
    /\ UNCHANGED <<store, lastRow, badRows, notIngest>>

\* Line 214-222: every future was collected; the executor shuts down and the
\* tallies are printed
Report ==
    /\ ing.phase = "pool"
    /\ \A k \in DOMAIN pool.stat : pool.stat[k] = "collected"
    /\ ing' = [ing EXCEPT !.phase = "report"]
    /\ UNCHANGED <<store, pool, lastRow, badRows, notIngest>>

NextIngest ==
    \/ \E row \in RowKinds : PrepareRow(row)
    \/ SubmitAll
    \/ WorkerStart
    \/ \E k \in 1..MaxRows, outs \in PoolOutcomes : WorkerFinish(k, outs)
    \/ \E k \in 1..MaxRows : Collect(k)
    \/ Report

-----------------------------------------------------------------------------
(* The zero-shot simulation and the evaluator's vote:                      *)
(* static_zero_shot/simulation_model_a.py, evaluate_correlation.py         *)

\* str.upper() on the letters the decision texts are written with
Upper(c) ==
    CASE c = "y" -> "Y" [] c = "e" -> "E" [] c = "s" -> "S" [] c = "n" -> "N"
      [] c = "o" -> "O" [] c = "h" -> "H" [] c = "a" -> "A" [] OTHER -> c

UpperStr(s) == [k \in DOMAIN s |-> Upper(s[k])]

\* s.startswith(prefix)
StartsWith(s, prefix) ==
    Len(s) >= Len(prefix) /\ SubSeq(s, 1, Len(prefix)) = prefix

\* The value of the "decision" key of a response: absent, JSON null, a JSON
\* number or boolean, or a JSON string
JMissing == [kind |-> "missing", s |-> <<>>]

JNull == [kind |-> "null", s |-> <<>>]

JNum == [kind |-> "num", s |-> <<>>]

JStr(s) == [kind |-> "str", s |-> s]

DecisionTexts ==
    {<<"Y","E","S">>, <<"y","e","s">>, <<" ","Y","e","s"," ">>,
     <<"Y","e","s","!">>, <<"N","O">>, <<"n","o">>, <<"o","h"," ","y","e","s">>,
     <<>>}

DecisionFields == {JMissing, JNull, JNum} \cup {JStr(s) : s \in DecisionTexts}

\* What one chat completion does: it raises (timeout, provider error, or a
\* content json.loads rejects), or its content parses to the empty object, or
\* to an object with keys
LlmOutcomes ==
    {[kind |-> "raise", decision |-> JMissing],
     [kind |-> "empty", decision |-> JMissing]}
    \cup {[kind |-> "object", decision |-> d] : d \in DecisionFields}

NoResponse == [kind |-> "None", decision |-> JMissing]

\* call_llm: the parsed content, or None after any exception
call_llm(outcome) == IF outcome.kind = "raise" THEN NoResponse ELSE outcome

\* "if response:" - None and the empty dict are false
Truthy(response) == response.kind = "object"

\* response.get("decision", "NO")
GetDecision(response) ==
    IF response.decision.kind = "missing" THEN JStr(<<"N","O">>)
    ELSE response.decision

\* Only a str has .upper(); on None, a number or a bool it is an AttributeError
HasUpper(v) == v.kind = "str"

\* generate_balanced_personas(n_per_type=13) makes 104 personas
NPersonas == 3

NoLast == [outcome |-> NoResponse, how |-> "none"]

SimIdle ==
    /\ sim = [phase |-> "off", n |-> 0, i |-> 0, results |-> <<>>, errors |-> 0,
              csv |-> <<>>, last |-> NoLast]
    /\ ev = [status |-> "idle", votes |-> <<>>, ratio |-> <<0, 0>>]

\* run_experiment_a_compatible up to the loop
SimInit ==
    /\ sim = [phase |-> "loop", n |-> NPersonas, i |-> 0, results |-> <<>>,
              errors |-> 0, csv |-> <<>>, last |-> NoLast]
    /\ ev = [status |-> "idle", votes |-> <<>>, ratio |-> <<0, 0>>]

\* One turn of the loop over the personas. sim.errors counts the "[ERROR]"
\* lines call_llm prints.
SimStep(outcome) ==
    /\ sim.phase = "loop"
    /\ sim.i < sim.n
    /\ LET response == call_llm(outcome)
           i == sim.i + 1
           errors == sim.errors + (IF outcome.kind = "raise" THEN 1 ELSE 0)
           decision == GetDecision(response)
       IN  sim' = IF ~Truthy(response)
                  THEN [sim EXCEPT !.i = i, !.errors = errors,
                                   !.last = [outcome |-> outcome, how |-> "norecord"]]
                  ELSE IF ~HasUpper(decision)
                  THEN [sim EXCEPT !.i = i, !.phase = "aborted",
                                   !.last = [outcome |-> outcome, how |-> "raised"]]
                  ELSE [sim EXCEPT !.i = i,
                                   !.results = Append(@, [Agent_ID |-> i,
                                        Decision |-> UpperStr(decision.s)]),
                                   !.last = [outcome |-> outcome, how |-> "record"]]
    /\ UNCHANGED <<ev, notSim>>

\* After the loop: the results are written; df['Decision'] of a frame made
\* from no rows is a KeyError
SimSave ==
    /\ sim.phase = "loop"
    /\ sim.i = sim.n
    /\ sim' = [sim EXCEPT !.csv = sim.results,
                          !.phase = IF sim.results = <<>> THEN "keyerror" ELSE "saved"]
    /\ UNCHANGED <<ev, notSim>>

\* read_csv of a cell and str() of it: an empty cell is NaN, "nan"
CellText(cell) == IF cell = <<>> THEN <<"n","a","n">> ELSE cell

\* The Vote column of calculate_model_ratio
Vote_NoStrip(x) == IF StartsWith(UpperStr(CellText(x)), <<"Y","E","S">>) THEN 1 ELSE 0

Vote(x) == IF StartsWith(UpperStr(Strip(CellText(x))), <<"Y","E","S">>) THEN 1 ELSE 0

RECURSIVE SumVotes(_)
SumVotes(votes) ==
    IF votes = <<>> THEN 0 ELSE votes[1].Vote + SumVotes(Tail(votes))

\* calculate_model_ratio(df_model, 'static') on the file the simulation wrote:
\* the ratio is the mean, kept as <<sum, count>>. A file without rows has no
\* Decision column to read.
Evaluate ==
    /\ sim.phase \in {"saved", "keyerror"}
    /\ ev.status = "idle"
    /\ ev' = IF sim.csv = <<>>
             THEN [ev EXCEPT !.status = "raised"]
             ELSE LET votes == [k \in DOMAIN sim.csv |->
                                  [Decision |-> sim.csv[k].Decision,
                                   Vote |-> Vote(sim.csv[k].Decision)]]
                  IN  [status |-> "done", votes |-> votes,
                       ratio |-> <<SumVotes(votes), Len(votes)>>]
    /\ UNCHANGED <<sim, notSim>>

NextSim ==
    \/ \E outcome \in LlmOutcomes : SimStep(outcome)
    \/ SimSave
    \/ Evaluate

-----------------------------------------------------------------------------
(* The concurrent simulation engine as time_aware_rag/                     *)
(* run_optimized_simulation.py runs it. simulation_model_c_async.py is not *)
(* in the source tree: the engine's tasks follow the design document       *)
(* (sections 4.4 and 5): a retrieval on the default executor through       *)
(* asyncio.to_thread, then one LLM call under a semaphore of               *)
(* max_concurrent permits, and a gather of all tasks.                      *)

\* 100 in run_optimized
MAX_WORKERS == 3

\* A runner that passes a cap one above the pool size
max_concurrent_Wider == MAX_WORKERS + 1

\* run_experiment_c_rag_async(max_concurrent=MAX_WORKERS)
max_concurrent == MAX_WORKERS

\* ThreadPoolExecutor(max_workers=MAX_WORKERS)
executor_workers == MAX_WORKERS

\* The (persona, date) tasks of a run
NTasks == 5

Tasks == 1..NTasks

EngIdle == eng = [phase |-> "off", permits |-> 0, pc |-> [t \in Tasks |-> "none"]]

InPc(p) == {t \in Tasks : eng.pc[t] = p}

\* run_optimized: a new loop with its executor, and the engine started with
\* its cap; the engine creates all tasks
RunOptimized ==
    /\ eng.phase = "off"
    /\ eng' = [phase |-> "running", permits |-> max_concurrent,
               pc |-> [t \in Tasks |-> "created"]]
    /\ UNCHANGED notEng

\* A task hands its retrieval to the default executor
ToThread(t) ==
    /\ eng.phase = "running"
    /\ eng.pc[t] = "created"
    /\ eng' = [eng EXCEPT !.pc[t] = "queued"]
    /\ UNCHANGED notEng

\* A free worker thread of the executor takes a queued retrieval
WorkerPick(t) ==
    /\ eng.pc[t] = "queued"
    /\ Cardinality(InPc("retrieving")) < executor_workers
    /\ eng' = [eng EXCEPT !.pc[t] = "retrieving"]
    /\ UNCHANGED notEng

\* The retrieval returns; the task goes on to wait for a permit
RetrievalDone(t) ==
    /\ eng.pc[t] = "retrieving"
    /\ eng' = [eng EXCEPT !.pc[t] = "waiting"]
    /\ UNCHANGED notEng

\* The semaphore is acquired and the LLM call issued
Acquire(t) ==
    /\ eng.pc[t] = "waiting"
    /\ eng.permits > 0
    /\ eng' = [eng EXCEPT !.pc[t] = "llm", !.permits = @ - 1]
    /\ UNCHANGED notEng

\* The LLM call returns or fails; the permit is released either way
LlmReturn(t, ok) ==
    /\ eng.pc[t] = "llm"
    /\ eng' = [eng EXCEPT !.pc[t] = IF ok THEN "done" ELSE "failed",
                          !.permits = @ + 1]
    /\ UNCHANGED notEng

\* gather returns when every task is terminal; run_optimized closes the loop
Gather ==
    /\ eng.phase = "running"
    /\ \A t \in Tasks : eng.pc[t] \in {"done", "failed"}
    /\ eng' = [eng EXCEPT !.phase = "closed"]
    /\ UNCHANGED notEng

NextEngine ==
    \/ RunOptimized
    \/ \E t \in Tasks : ToThread(t)
    \/ \E t \in Tasks : WorkerPick(t)
    \/ \E t \in Tasks : RetrievalDone(t)
    \/ \E t \in Tasks : Acquire(t)
    \/ \E t \in Tasks, ok \in BOOLEAN : LlmReturn(t, ok)
    \/ Gather

-----------------------------------------------------------------------------
(* The correlation evaluator: evaluate_correlation.py, main                *)

\* Date cells of the CSV files
EvalDateTexts ==
    {<<"2","0","2","0","-","1","2","-","1","0">>,
     <<"2","0","2","0","-","1","2","-","1","1">>,
     <<"2","0","2","0","-","1","2","-","1","2">>}

\* Decision cells of the model's CSV
EvalCells == {<<" ","y","e","s">>, <<"N","O">>}

\* pd.to_datetime of a YYYY-MM-DD cell: the day, kept as the number YYYYMMDD
ToDatetime(s) == DigitsValue(RemoveDashes(s))

\* The most rows a model CSV has
MaxRecords == 3

ModelRows == [Simulation_Date : EvalDateTexts, Decision : EvalCells]

ModelTables == UNION {[1..n -> ModelRows] : n \in 1..MaxRecords}

\* The ascending sequence of a set of numbers (sort_values, groupby keys)
RECURSIVE SortedSeq(_)
SortedSeq(S) ==
    IF S = {} THEN <<>>
    ELSE LET lo == CHOOSE x \in S : \A y \in S : x <= y
         IN  <<lo>> \o SortedSeq(S \ {lo})

\* load_ground_truth: the dates of the file, parsed and sorted; the file has
\* one row per date
load_ground_truth(texts) == SortedSeq({ToDatetime(s) : s \in texts})

RECURSIVE SumOver(_, _)
SumOver(f, S) ==
    IF S = {} THEN 0
    ELSE LET k == CHOOSE x \in S : TRUE IN f[k] + SumOver(f, S \ {k})

\* groupby('Simulation_Date')['Vote'].mean().reset_index(): one row per date
\* of the table, ascending; the mean is kept as <<sum, count>>
DailyRatio(table) ==
    LET date == [k \in DOMAIN table |-> ToDatetime(table[k].Simulation_Date)]
        vote == [k \in DOMAIN table |-> Vote(table[k].Decision)]
        days == SortedSeq(Range(date))
        rowsOf(d) == {k \in DOMAIN table : date[k] = d}
    IN  [j \in DOMAIN days |->
            [Date |-> days[j],
             Purchase_Ratio |-> <<SumOver(vote, rowsOf(days[j])),
                                  Cardinality(rowsOf(days[j]))>>]]

\* df_model['Vote'].mean() of the whole table
StaticRatio(table) ==
    LET vote == [k \in DOMAIN table |-> Vote(table[k].Decision)]
    IN  <<SumOver(vote, DOMAIN table), Len(table)>>

RECURSIVE SelectRows(_, _)
SelectRows(rows, keep) ==
    IF rows = <<>> THEN <<>>
    ELSE (IF Head(rows).Date \in keep THEN <<Head(rows)>> ELSE <<>>)
         \o SelectRows(Tail(rows), keep)

\* A join that keeps every date of the model
Merge_KeepModelDates(gt, daily) ==
    [j \in DOMAIN daily |-> [Date |-> daily[j].Date, Model_Ratio |-> daily[j].Purchase_Ratio]]

\* pd.merge(gt, dynamic_df, on='Date', how='inner') and the rename
Merge(gt, daily) ==
    LET both == SelectRows(daily, Range(gt))
    IN  [j \in DOMAIN both |-> [Date |-> both[j].Date, Model_Ratio |-> both[j].Purchase_Ratio]]

\* gt.copy() with the column Model_Ratio = static_ratio
Broadcast(gt, ratio) == [j \in DOMAIN gt |-> [Date |-> gt[j], Model_Ratio |-> ratio]]

\* scipy.stats.pearsonr: fewer than 2 points is a ValueError; a constant
\* column gives NaN (the warning is suppressed). The ground truth's values
\* differ from date to date.
pearsonr(merged) ==
    IF Len(merged) < 2 THEN "ValueError"
    ELSE IF \A j, k \in DOMAIN merged :
                merged[j].Model_Ratio[1] * merged[k].Model_Ratio[2]
                  = merged[k].Model_Ratio[1] * merged[j].Model_Ratio[2]
         THEN "nan"
         ELSE "r"

EvalOff ==
    [phase |-> "off", type |-> "static", model |-> <<>>, steam |-> {}, stock |-> {},
     steam_gt |-> <<>>, stock_gt |-> <<>>, static_ratio |-> <<0, 0>>, dynamic_df |-> <<>>,
     merged_steam |-> <<>>, merged_stock |-> <<>>, corr_steam |-> "none",
     corr_stock |-> "none"]

EvalIdle == evm = EvalOff

\* The command line and the three files
EvalInit ==
    \E type \in {"static", "dynamic"}, model \in ModelTables,
       steam \in SUBSET EvalDateTexts, stock \in SUBSET EvalDateTexts :
        evm = [EvalOff EXCEPT !.phase = "start", !.type = type, !.model = model,
                              !.steam = steam, !.stock = stock]

\* Line 48-52: the files are read and calculate_model_ratio is called
EvLoad ==
    /\ evm.phase = "start"
    /\ evm' = [evm EXCEPT !.phase = "ratio",
                 !.steam_gt = load_ground_truth(evm.steam),
                 !.stock_gt = load_ground_truth(evm.stock),
                 !.static_ratio = IF evm.type = "static" THEN StaticRatio(evm.model) ELSE @,
                 !.dynamic_df = IF evm.type = "dynamic" THEN DailyRatio(evm.model) ELSE @]
    /\ UNCHANGED notEval

\* Line 54-65: the model's ratio is put beside each ground truth
EvMerge ==
    /\ evm.phase = "ratio"
    /\ evm' = [evm EXCEPT !.phase = "merged",
                 !.merged_steam = IF evm.type = "static"
                                  THEN Broadcast(evm.steam_gt, evm.static_ratio)
                                  ELSE Merge(evm.steam_gt, evm.dynamic_df),
                 !.merged_stock = IF evm.type = "static"
                                  THEN Broadcast(evm.stock_gt, evm.static_ratio)
                                  ELSE Merge(evm.stock_gt, evm.dynamic_df)]
    /\ UNCHANGED notEval

\* Line 67-85: the test on the steam table, then both correlations
EvCorrelate ==
    /\ evm.phase = "merged"
    /\ evm' = IF Len(evm.merged_steam) < 2
              THEN [evm EXCEPT !.phase = "insufficient"]
              ELSE IF pearsonr(evm.merged_stock) = "ValueError"
              THEN [evm EXCEPT !.phase = "raised",
                               !.corr_steam = pearsonr(evm.merged_steam)]
              ELSE [evm EXCEPT !.phase = "reported",
                               !.corr_steam = pearsonr(evm.merged_steam),
                               !.corr_stock = pearsonr(evm.merged_stock)]
    /\ UNCHANGED notEval

NextEval ==
    \/ EvLoad
    \/ EvMerge
    \/ EvCorrelate

-----------------------------------------------------------------------------
(* One QueryCacheManager object and its caller: the methods of             *)
(* utils/query_cache_manager.py called one after another                   *)

\* pickle.dump of a dict: its items, in the dict's order, as the file's content
Pickle(c) ==
    LET ord == CHOOSE o \in Orderings(DOMAIN c) : TRUE
    IN  [i \in DOMAIN ord |-> <<ord[i], c[ord[i]]>>]

\* A load that loses the last item of the file
RECURSIVE Unpickle_Short(_)
Unpickle_Short(items) ==
    IF Len(items) <= 1 THEN EmptyCache
    ELSE CachePut(Unpickle_Short(SubSeq(items, 1, Len(items) - 1)),
                  items[Len(items) - 1][1], items[Len(items) - 1][2])

\* pickle.load: the dict rebuilt item by item
RECURSIVE Unpickle(_)
Unpickle(items) ==
    IF items = <<>> THEN EmptyCache
    ELSE CachePut(Unpickle(SubSeq(items, 1, Len(items) - 1)),
                  items[Len(items)][1], items[Len(items)][2])

\* The cache file as _load_cache finds it: absent; a pickle; bytes pickle.load
\* rejects; or a file open() refuses to read
DiskAbsent == [kind |-> "absent", items |-> <<>>]

DiskCorrupt == [kind |-> "corrupt", items |-> <<>>]

DiskUnreadable == [kind |-> "unreadable", items |-> <<>>]

DiskOf(c) == [kind |-> "ok", items |-> Pickle(c)]

\* A load that takes what it can from a damaged file
load_cache_Salvage(f) ==
    IF f.kind = "ok" THEN Unpickle(f.items)
    ELSE IF f.kind = "absent" THEN EmptyCache
    ELSE [q \in {GENERAL_QUERY} |-> 0]

\* _load_cache (line 32-44): the dict of the file; {} when there is no file and
\* when open or pickle.load raises
load_cache(f) == IF f.kind = "ok" THEN Unpickle(f.items) ELSE EmptyCache

\* How many calls the caller makes on the manager in one run
MaxMgrCalls == 3

NoLog == [op |-> "none", q |-> "", miss |-> FALSE, writes |-> 0, end |-> "none",
          emb |-> 0, before |-> EmptyCache]

MgrOff ==
    [pc |-> "off", file |-> DiskAbsent, cache |-> EmptyCache, ord |-> <<>>, b |-> 0,
     ret |-> "", ncalls |-> 0, fails |-> 0, found |-> "absent", loaded |-> EmptyCache,
     saved |-> EmptyCache, saves |-> 0, log |-> NoLog]

MgrIdle == mgr = MgrOff

\* The files a run may find
DiskFiles ==
    {DiskAbsent, DiskCorrupt, DiskUnreadable,
     DiskOf(CachePut(EmptyCache, "general", Emb("general"))),
     DiskOf(PutAll(EmptyCache, {"general", "type_a"}))}

MgrInit == \E f \in DiskFiles : mgr = [MgrOff EXCEPT !.pc = "new", !.file = f]

\* QueryCacheManager(): line 16-19. found and loaded are history: the kind of
\* file the object was built from and the dict it started with.
MgrConstruct ==
    /\ mgr.pc \in {"new", "idle"}
    /\ mgr.pc = "idle" => mgr.ncalls < MaxMgrCalls
    /\ mgr' = [mgr EXCEPT !.pc = "idle", !.cache = load_cache(mgr.file),
                 !.ncalls = IF mgr.pc = "idle" THEN @ + 1 ELSE @,
                 !.found = mgr.file.kind, !.loaded = load_cache(mgr.file),
                 !.log = [NoLog EXCEPT !.op = "init", !.end = "returned",
                                       !.before = mgr.cache]]
    /\ UNCHANGED notMgr

\* get_embedding(q), line 55-59: a hit returns at once
MgrGet(q) ==
    /\ mgr.pc = "idle"
    /\ mgr.ncalls < MaxMgrCalls
    /\ LET log == [NoLog EXCEPT !.op = "get", !.q = q, !.before = mgr.cache]
       IN  mgr' = IF q \in DOMAIN mgr.cache
                  THEN [mgr EXCEPT !.ncalls = @ + 1,
                          !.log = [log EXCEPT !.end = "returned", !.emb = mgr.cache[q]]]
                  ELSE [mgr EXCEPT !.ncalls = @ + 1, !.pc = "ge_embed",
                          !.log = [log EXCEPT !.miss = TRUE, !.end = "running"]]
    /\ UNCHANGED notMgr

\* Line 61: the provider returns the vector
MgrGetEmbed ==
    /\ mgr.pc = "ge_embed"
    /\ mgr' = [mgr EXCEPT !.pc = "ge_store", !.log.emb = Emb(mgr.log.q)]
    /\ UNCHANGED notMgr

\* Line 61: the provider raises, and so does get_embedding
MgrGetEmbedRaises ==
    /\ mgr.pc = "ge_embed"
    /\ mgr.fails < MaxProviderFailures
    /\ mgr' = [mgr EXCEPT !.pc = "idle", !.fails = @ + 1, !.log.end = "raised"]
    /\ UNCHANGED notMgr

\* Line 62-63: the vector is stored and _save_cache called
MgrGetStore ==
    /\ mgr.pc = "ge_store"
    /\ mgr' = [mgr EXCEPT !.pc = "save", !.ret = "ge",
                 !.cache = CachePut(@, mgr.log.q, mgr.log.emb)]
    /\ UNCHANGED notMgr

\* precompute_all, line 68-84: nothing missing returns at once
MgrPrecompute ==
    /\ mgr.pc = "idle"
    /\ mgr.ncalls < MaxMgrCalls
    /\ LET log == [NoLog EXCEPT !.op = "pre", !.before = mgr.cache]
       IN  IF Missing(mgr.cache) = {}
           THEN mgr' = [mgr EXCEPT !.ncalls = @ + 1,
                          !.log = [log EXCEPT !.end = "returned"]]
           ELSE \E ord \in Orderings(Missing(mgr.cache)) :
                  mgr' = [mgr EXCEPT !.ncalls = @ + 1, !.pc = "pc_embed",
                            !.ord = ord, !.b = 1,
                            !.log = [log EXCEPT !.miss = TRUE, !.end = "running"]]
    /\ UNCHANGED notMgr

\* Line 89: the provider returns the batch's vectors
MgrPreEmbed ==
    /\ mgr.pc = "pc_embed"
    /\ mgr' = [mgr EXCEPT !.pc = "pc_store"]
    /\ UNCHANGED notMgr

\* Line 89: the provider raises, and so does precompute_all
MgrPreEmbedRaises ==
    /\ mgr.pc = "pc_embed"
    /\ mgr.fails < MaxProviderFailures
    /\ mgr' = [mgr EXCEPT !.pc = "idle", !.fails = @ + 1, !.ord = <<>>, !.b = 0,
                          !.log.end = "raised"]
    /\ UNCHANGED notMgr

\* A pass that writes the file after every batch
MgrPreStore_SaveEach ==
    /\ mgr.pc = "pc_store"
    /\ LET c == PutAll(mgr.cache, BatchOf(mgr.ord, mgr.b))
       IN  mgr' = IF mgr.b < NumBatches(Len(mgr.ord))
                  THEN [mgr EXCEPT !.pc = "pc_embed", !.b = @ + 1, !.cache = c,
                          !.file = DiskOf(c), !.saved = c, !.saves = @ + 1,
                          !.log.writes = @ + 1]
                  ELSE [mgr EXCEPT !.pc = "save", !.ret = "pc", !.ord = <<>>, !.b = 0,
                          !.cache = c]
    /\ UNCHANGED notMgr

\* Line 90-91, then line 86 or 93: the batch is stored; next batch, or save
MgrPreStore ==
    /\ mgr.pc = "pc_store"
    /\ mgr' = IF mgr.b < NumBatches(Len(mgr.ord))
              THEN [mgr EXCEPT !.pc = "pc_embed", !.b = @ + 1,
                      !.cache = PutAll(@, BatchOf(mgr.ord, mgr.b))]
              ELSE [mgr EXCEPT !.pc = "save", !.ret = "pc", !.ord = <<>>, !.b = 0,
                      !.cache = PutAll(@, BatchOf(mgr.ord, mgr.b))]
    /\ UNCHANGED notMgr

\* _save_cache, line 46-52, and the return of its caller (line 64, line 94).
\* saved and saves are history: the dict as it was saved, and how often.
MgrSave ==
    /\ mgr.pc = "save"
    /\ mgr' = [mgr EXCEPT !.pc = "idle", !.ret = "", !.file = DiskOf(mgr.cache),
                 !.saved = mgr.cache, !.saves = @ + 1,
                 !.log.writes = @ + 1, !.log.end = "returned"]
    /\ UNCHANGED notMgr

NextMgr ==
    \/ MgrConstruct
    \/ \E q \in Queries : MgrGet(q)
    \/ MgrGetEmbed
    \/ MgrGetEmbedRaises
    \/ MgrGetStore
    \/ MgrPrecompute
    \/ MgrPreEmbed
    \/ MgrPreEmbedRaises
    \/ MgrPreStore
    \/ MgrSave

-----------------------------------------------------------------------------
(* The specifications                                                      *)

vars == <<retrVars, cacheVars, thrVars, ingVars, pbVars, simVars, engVars, evalVars,
          mgrVars>>

\* The retriever, called again and again by one caller
InitRetr ==
    RetrInit /\ CacheInit /\ ThrInit /\ IngIdle /\ pb = PbIdle /\ SimIdle /\ EngIdle /\ EvalIdle /\ MgrIdle

SpecRetr == InitRetr /\ [][Retrieve]_vars

\* Worker threads calling get_query_embedding concurrently
NextCache == \E t \in Threads : ThreadStep(t)

InitCache ==
    RetrIdle /\ CacheInit /\ ThrInit /\ IngIdle /\ pb = PbIdle /\ SimIdle /\ EngIdle /\ EvalIdle /\ MgrIdle

SpecCache == InitCache /\ [][NextCache]_vars

\* One run of build_chroma_db; the collection is created empty (line 101-108)
InitIngest ==
    RetrIdle /\ CacheIdle /\ ThrInit /\ IngInit /\ pb = PbIdle /\ SimIdle /\ EngIdle /\ EvalIdle /\ MgrIdle

SpecIngest == InitIngest /\ [][NextIngest]_vars

\* process_batch, called again and again
InitBatch ==
    RetrIdle /\ CacheIdle /\ ThrInit /\ IngIdle /\ pb = PbIdle /\ SimIdle /\ EngIdle /\ EvalIdle /\ MgrIdle

SpecBatch == InitBatch /\ [][NextBatch]_vars

\* One run of the zero-shot simulation, and the evaluator on its file
InitSim ==
    RetrIdle /\ CacheIdle /\ ThrInit /\ IngIdle /\ pb = PbIdle /\ SimInit /\ EngIdle
    /\ EvalIdle /\ MgrIdle

SpecSim == InitSim /\ [][NextSim]_vars

\* One run of the optimized runner
InitEngine ==
    RetrIdle /\ CacheIdle /\ ThrInit /\ IngIdle /\ pb = PbIdle /\ SimIdle /\ EngIdle /\ EvalIdle /\ MgrIdle

SpecEngine == InitEngine /\ [][NextEngine]_vars

\* One run of the evaluator
InitEval ==
    RetrIdle /\ CacheIdle /\ ThrInit /\ IngIdle /\ pb = PbIdle /\ SimIdle /\ EngIdle
    /\ EvalInit /\ MgrIdle

SpecEval == InitEval /\ [][NextEval]_vars

\* One caller of one manager object and of fresh ones built from its file
InitMgr ==
    RetrIdle /\ CacheIdle /\ ThrInit /\ IngIdle /\ pb = PbIdle /\ SimIdle /\ EngIdle
    /\ EvalIdle /\ MgrInit

SpecMgr == InitMgr /\ [][NextMgr]_vars

-----------------------------------------------------------------------------
(* Calendar dates, as the claims speak of them                             *)

\* A text of the form YYYY-MM-DD
IsIsoDate(s) ==
    /\ Len(s) = 10
    /\ s[5] = "-" /\ s[8] = "-"
    /\ \A i \in {1, 2, 3, 4, 6, 7, 9, 10} : IsDigit(s[i])

\* <<year, month, day>> of a YYYY-MM-DD text and of a YYYYMMDD number
CalOfText(s) ==
    <<DigitsValue(SubSeq(s, 1, 4)), DigitsValue(SubSeq(s, 6, 7)), DigitsValue(SubSeq(s, 9, 10))>>

CalOfInt(n) == <<n \div 10000, (n \div 100) % 100, n % 100>>

\* a is the same day as b or an earlier one
CalLeq(a, b) ==
    \/ a[1] < b[1]
    \/ a[1] = b[1] /\ a[2] < b[2]
    \/ a[1] = b[1] /\ a[2] = b[2] /\ a[3] <= b[3]

StoredDoc(id) == CHOOSE d \in store : d.id = id

-----------------------------------------------------------------------------
(* C1: every snippet retrieve_reviews returns for a cutoff date C comes    *)
(* from a stored document dated on or before C; a document dated after C   *)
(* is never returned, however near it is to the query.                     *)
C1_NoFutureDocument ==
    (r_status = "ok" /\ IsIsoDate(r_call.current_date)) =>
        \A i \in DOMAIN r_result :
            /\ \E d \in store : d.id = r_result[i].doc
            /\ CalLeq(CalOfInt(StoredDoc(r_result[i].doc).date),
                      CalOfText(r_call.current_date))

\* The scenario of C1: documents of 2020-01-01, 2020-06-01 and 2021-01-01,
\* cutoff 2020-12-31, top_k = 5: exactly the first two come back.
C1_Witness ==
    /\ r_status = "ok"
    /\ store = DocPool
    /\ r_call.current_date = <<"2","0","2","0","-","1","2","-","3","1">>
    /\ r_call.top_k = 5
    /\ {r_result[i].doc : i \in DOMAIN r_result} = {1, 2}

-----------------------------------------------------------------------------
(* C2, as stated: any two calls that ask the cache for a query Q, in any   *)
(* order and from any caller, issue at most one external embedding call in *)
(* total. Stated for the runs in which no provider call raised.            *)
C2_AtMostOneExternalCall ==
    provFails = 0 => \A q \in Queries : extCalls[q] <= 1

(* C2, amended: once a get_embedding call for Q on a manager object has    *)
(* returned a vector, a get_embedding call for Q on the same object that   *)
(* starts later is a hit: it never gets to the provider call of line 61.   *)
C2_LaterCallIsHit ==
    \A t \in Threads : thr[t].late => thr[t].pc = "ge_check"

\* A call for the ad-hoc query that starts after another one returned, with
\* one provider call made for it so far
C2_Witness ==
    \E t \in Threads :
        /\ thr[t].pc = "ge_check"
        /\ thr[t].late
        /\ thr[t].q = "adhoc"
        /\ extCalls["adhoc"] = 1
        /\ "adhoc" \in DOMAIN caches[thr[t].obj]

-----------------------------------------------------------------------------
(* C3: writes of the cache file are serialized and every save is atomic:   *)
(* two saves never have the file open at once, and no _load_cache reads    *)
(* the file while a save has truncated it and not yet closed it.           *)
C3_SavesSerializedAndAtomic ==
    /\ Cardinality(cfile.writers) <= 1
    /\ ~loadedPartial

-----------------------------------------------------------------------------
-----------------------------------------------------------------------------
(* C5: a failing LLM call never aborts the run: the run finishes           *)
(* successfully whatever the calls did, and when it has finished, of its N *)
(* tasks with F recorded failures the output holds exactly N - F decision  *)
(* records.                                                                *)
C5_FailuresCountedRunCompletes ==
    /\ sim.phase \notin {"aborted", "keyerror"}
    /\ sim.phase = "saved" => Len(sim.csv) = sim.n - sim.errors

-----------------------------------------------------------------------------
\* The messages that are a rate-limit signal of the store or the provider
RateLimitSignals == {MsgRateLimit, Msg429}

(* C6: process_batch retries collection.add only after a rate-limit        *)
(* signal, at most 5 times (6 attempts), sleeping 2 s * 2^attempt plus a   *)
(* jitter of at most 1 s before each retry; any other failure ends the     *)
(* call at once; every failing call returns 0, every successful one the    *)
(* size of the batch, and none raises.                                     *)
C6_RetryPolicy ==
    /\ pb.attempt <= 5
    /\ Len(pb.sleeps) = pb.attempt
    /\ \A k \in DOMAIN pb.sleeps :
          /\ pb.msgs[k] \in RateLimitSignals
          /\ pb.sleeps[k] >= 2 * Pow2(k - 1)
          /\ pb.sleeps[k] <= 2 * Pow2(k - 1) + 1
    /\ pb.status = "running" => Len(pb.msgs) = pb.attempt
    /\ pb.status = "returned" =>
          /\ Len(pb.msgs) \in {pb.attempt, pb.attempt + 1}
          /\ Len(pb.msgs) = pb.attempt => pb.result = pb.n
          /\ Len(pb.msgs) = pb.attempt + 1 =>
                /\ pb.result = 0
                /\ pb.msgs[Len(pb.msgs)] \in RateLimitSignals => pb.attempt = 5

\* A call that was rate-limited six times: five retries, then 0
C6_Witness ==
    /\ pb.status = "returned"
    /\ pb.result = 0
    /\ Len(pb.sleeps) = 5
    /\ pb.msgs[6] \in RateLimitSignals

-----------------------------------------------------------------------------
\* The documents ingestion has put into a batch or into the collection
Ingested == Range(ing.current_batch) \cup UNION {Range(ing.batches[k]) : k \in DOMAIN ing.batches} \cup store

(* C7: every record whose timestamp cannot be parsed has incremented the   *)
(* skipped counter and is in no batch and not in the store; and at the end *)
(* of a run written + skipped <= the number of input records.              *)
C7_SkippedAndTallies ==
    /\ ing.skipped_count = Cardinality(badRows)
    /\ \A d \in Ingested : d.id \notin badRows
    /\ ing.total_processed + ing.skipped_count <= ing.total_docs

(* C8: a record is dated by its updated timestamp when that is present,    *)
(* by its created timestamp when the updated one is absent; a record whose *)
(* timestamps are both missing or unparsable is skipped and counted; and   *)
(* no timestamp value aborts the run.                                      *)
C8_TimestampPolicyNeverFatal ==
    /\ ing.phase # "aborted"
    /\ lastRow.how # "none" =>
          /\ lastRow.row[1].kind = "num" =>
                lastRow.how = "date" /\ lastRow.date = 20200601
          /\ lastRow.row[1].kind = "nan" /\ lastRow.row[2].kind = "num" =>
                lastRow.how = "date" /\ lastRow.date = 20200101
          /\ lastRow.row[1].kind # "num" /\ lastRow.row[2].kind # "num" =>
                lastRow.how = "skip" /\ lastRow.i \in badRows

(* C9: at most max_workers = 3 batches are being written at any moment,    *)
(* however many batches there are; process_batch is started at most once   *)
(* on a batch; while batches are outstanding the run can go on; and when   *)
(* the run reports, every batch was processed exactly once.                *)
C9_BoundedPool ==
    /\ Cardinality(Running) <= 3
    /\ \A k \in DOMAIN pool.runs : pool.runs[k] <= 1
    /\ ing.phase = "pool" => ENABLED NextIngest
    /\ ing.phase = "report" =>
          /\ DOMAIN pool.runs = DOMAIN ing.batches
          /\ \A k \in DOMAIN ing.batches : pool.runs[k] = 1 /\ pool.stat[k] = "collected"

\* Three batches are being written and a fourth waits for a worker
C9_Witness ==
    /\ ing.phase = "pool"
    /\ Cardinality(Running) = 3
    /\ pool.queue # <<>>

-----------------------------------------------------------------------------
\* The stored decision texts that begin with YES once blanks around them and
\* case are ignored
AffirmativeCells == {<<"Y","E","S">>, <<" ","Y","E","S"," ">>, <<"Y","E","S","!">>}

(* C10: no value of the decision field makes normalization raise, a        *)
(* missing, null or non-string one included; and a decision is counted     *)
(* affirmative exactly when its text begins with YES after blanks around   *)
(* it and case are ignored, negative otherwise.                            *)
C10_DecisionNormalization ==
    /\ sim.last.how # "raised"
    /\ \A k \in DOMAIN ev.votes :
          ev.votes[k].Vote = (IF ev.votes[k].Decision \in AffirmativeCells THEN 1 ELSE 0)

-----------------------------------------------------------------------------
(* C11: every decision record the simulation has made or written holds a   *)
(* decision that is YES or NO, whatever the decision field of the response *)
(* was, and no task has more than one record.                              *)
C11_RecordsAreYesOrNo ==
    /\ \A k \in DOMAIN sim.results :
          sim.results[k].Decision \in {<<"Y","E","S">>, <<"N","O">>}
    /\ \A k \in DOMAIN sim.csv :
          sim.csv[k].Decision \in {<<"Y","E","S">>, <<"N","O">>}
    /\ \A j, k \in DOMAIN sim.results :
          sim.results[j].Agent_ID = sim.results[k].Agent_ID => j = k

-----------------------------------------------------------------------------
(* C12: the evaluator computes a correlation only on a joined table of at  *)
(* least 2 rows: for the steam and for the stock series alike, a joined    *)
(* table of fewer than 2 rows ends the run with the insufficient-data      *)
(* outcome, without the statistic being attempted and without an error.    *)
C12_InsufficientDataIsReported ==
    /\ evm.phase # "raised"
    /\ evm.phase \in {"insufficient", "reported"} =>
          (evm.phase = "insufficient"
             <=> (Len(evm.merged_steam) < 2 \/ Len(evm.merged_stock) < 2))
    /\ evm.corr_steam # "none" => Len(evm.merged_steam) >= 2
    /\ evm.corr_stock # "none" => Len(evm.merged_stock) >= 2

-----------------------------------------------------------------------------
\* The decision cells that count as YES, and the days as the numbers YYYYMMDD
YesCells == {<<" ","y","e","s">>}

DayOfText ==
    [s \in EvalDateTexts |->
        IF s[10] = "0" THEN 20201210 ELSE IF s[10] = "1" THEN 20201211 ELSE 20201212]

RowsOn(d) == {k \in DOMAIN evm.model : DayOfText[evm.model[k].Simulation_Date] = d}

YesOn(d) == {k \in RowsOn(d) : evm.model[k].Decision \in YesCells}

DaysOf(texts) == {DayOfText[s] : s \in texts}

JoinedOk(merged, gtDays) ==
    /\ {merged[j].Date : j \in DOMAIN merged}
         = gtDays \cap {d \in DaysOf(EvalDateTexts) : RowsOn(d) # {}}
    /\ \A j, k \in DOMAIN merged : merged[j].Date = merged[k].Date => j = k
    /\ \A j \in DOMAIN merged :
          merged[j].Model_Ratio = <<Cardinality(YesOn(merged[j].Date)),
                                    Cardinality(RowsOn(merged[j].Date))>>

(* C19: in dynamic mode the ratio of a date is (YES decisions on that      *)
(* date) / (decisions on that date), and each joined table holds exactly   *)
(* the dates that are both among the decision records and in its ground    *)
(* truth, once each.                                                       *)
C19_DailyRatioAndInnerJoin ==
    evm.type = "dynamic" /\ evm.phase \in {"merged", "insufficient", "reported", "raised"} =>
        /\ JoinedOk(evm.merged_steam, DaysOf(evm.steam))
        /\ JoinedOk(evm.merged_stock, DaysOf(evm.stock))

\* A date with one YES of two decisions is joined, one date is dropped for
\* want of decisions and one for want of ground truth
C19_Witness ==
    /\ evm.type = "dynamic"
    /\ evm.phase = "merged"
    /\ \E j \in DOMAIN evm.merged_steam : evm.merged_steam[j].Model_Ratio = <<1, 2>>
    /\ \E d \in DaysOf(evm.steam) : RowsOn(d) = {}
    /\ \E d \in DaysOf(EvalDateTexts) : RowsOn(d) # {} /\ d \notin DaysOf(evm.steam)

-----------------------------------------------------------------------------
-----------------------------------------------------------------------------
(* C14: during a run the cache only grows: a call removes no key and       *)
(* replaces no vector the dict held when it began; the file holds one      *)
(* entry per query string; and between calls every entry the dict has      *)
(* gained since it was loaded is in the cache file, with the same vector.  *)
C14_AppendOnlyAndPersisted ==
    /\ mgr.log.op \in {"get", "pre"} =>
          \A k \in DOMAIN mgr.log.before :
              k \in DOMAIN mgr.cache /\ mgr.cache[k] = mgr.log.before[k]
    /\ \A i, j \in DOMAIN mgr.file.items :
          mgr.file.items[i][1] = mgr.file.items[j][1] => i = j
    /\ mgr.pc = "idle" =>
          \A k \in DOMAIN mgr.cache \ DOMAIN mgr.loaded :
              /\ mgr.file.kind = "ok"
              /\ k \in DOMAIN Unpickle(mgr.file.items)
              /\ Unpickle(mgr.file.items)[k] = mgr.cache[k]

-----------------------------------------------------------------------------
-----------------------------------------------------------------------------
(* C16: a manager built from a cache file that is corrupt or unreadable is *)
(* built without an error and starts with an empty dict; and every         *)
(* get_embedding call on it that returns, returns the provider's vector    *)
(* for its query, computed anew unless this manager had computed it        *)
(* before.                                                                 *)
C16_CorruptFileStartsEmpty ==
    mgr.found \in {"corrupt", "unreadable"} =>
        /\ mgr.pc # "off"
        /\ mgr.loaded = EmptyCache
        /\ mgr.log.op = "init" => mgr.log.end = "returned" /\ mgr.cache = EmptyCache
        /\ mgr.log.op = "get" /\ mgr.log.end = "returned" =>
              /\ mgr.log.emb = Emb(mgr.log.q)
              /\ mgr.log.miss \/ mgr.log.q \in DOMAIN mgr.log.before
        /\ \A k \in DOMAIN mgr.cache : mgr.cache[k] = Emb(k)

\* On a manager built from a corrupt file a miss has returned its vector
C16_Witness ==
    /\ mgr.found = "corrupt"
    /\ mgr.log.op = "get"
    /\ mgr.log.miss
    /\ mgr.log.end = "returned"
    /\ mgr.log.emb = Emb(mgr.log.q)

-----------------------------------------------------------------------------
\* How far the stored document of a snippet is from the query of the call
Distance(i) == Abs(StoredDoc(r_result[i].doc).vec - Emb(r_call.query_text))

Passing == {d \in store : d.date <= r_filter}

(* C17: a retrieve_reviews call with top_k = K that returns, returns at    *)
(* most K snippets (as many as K allows of the documents that pass the     *)
(* date filter), no document twice, the nearer to the query first; it      *)
(* returns the empty list when no document passes or the store is empty;   *)
(* and an empty result is never the cause of an error.                     *)
C17_AtMostKBestFirst ==
    /\ r_status = "ok" =>
          /\ Len(r_result) <= r_call.top_k
          /\ Len(r_result) = Min(r_call.top_k, Cardinality(Passing))
          /\ \A i, j \in DOMAIN r_result :
                /\ i < j => Distance(i) <= Distance(j)
                /\ r_result[i].doc = r_result[j].doc => i = j
          /\ Passing = {} => r_result = <<>>
    /\ r_status = "raised" => r_call.current_date = NoneArg \/ provFails > 0

\* Two documents pass the filter and top_k = 1 lets the nearer one through
C17_Witness ==
    /\ r_status = "ok"
    /\ r_call.top_k = 1
    /\ Len(r_result) = 1
    /\ Cardinality(Passing) = 2

-----------------------------------------------------------------------------
\* A cutoff that is no YYYY-MM-DD text of a month 1..12 and a day 1..31
Malformed(cd) ==
    ~ /\ IsIsoDate(cd)
      /\ CalOfText(cd)[2] \in 1..12
      /\ CalOfText(cd)[3] \in 1..31

(* C18: a retrieve_reviews call with a malformed cutoff date is not        *)
(* aborted on account of the date, and filters with the default cutoff     *)
(* 20250101.                                                               *)
C18_MalformedCutoffFallsBack ==
    r_call # NoCall /\ Malformed(r_call.current_date) =>
        /\ provFails = 0 => r_status = "ok"
        /\ r_filter = 20250101

-----------------------------------------------------------------------------
\* The threads that are inside precompute_all (its save included)
InPrecompute ==
    {t \in Threads : \/ thr[t].pc \in {"pc_start", "pc_embed", "pc_store"}
                     \/ thr[t].pc \in {"sv_open", "sv_dump", "sv_close"} /\ thr[t].ret = "pc"}

(* C20: over every interleaving of get_query_embedding calls at most one   *)
(* QueryCacheManager is constructed: a thread never holds a newly built    *)
(* manager while _manager is already set or another thread holds one too;  *)
(* and precompute_all runs once, before any embedding is returned: never   *)
(* in two threads at a time, and never after a call has returned.          *)
C20_OneManagerOnePrecompute ==
    /\ \A t \in Threads : thr[t].pc = "gq_assign" =>
          /\ manager = None
          /\ \A u \in Threads \ {t} : thr[u].pc # "gq_assign"
    /\ Cardinality(InPrecompute) <= 1
    /\ InPrecompute # {} => returnedOn = {}

====
